---------------------------- MODULE Spec2Model ----------------------------
(***************************************************************************)
(* OXY-SHIELD backend: the rule-based HealthPredictor                      *)
(* (Backend/models/health_predictor.py), the alert de-duplication of       *)
(* DatabaseManager (Backend/database/db_manager.py) and the two Flask      *)
(* handlers that call them (Backend/app.py).                               *)
(*                                                                         *)
(* Units.  Python floats are modelled by integers:                         *)
(*   - temperature is in tenths of a degree (36.8 is 368);                 *)
(*   - every percentage is in tenths of a percent (92.5 is 925), so        *)
(*     round(x, 1) of a value with one decimal is exact; the overall risk  *)
(*     is first computed in hundredths and then rounded, see Round1;       *)
(*   - the altitude factor is in hundredths (1.75 is 175);                 *)
(*   - datetime.now() is the integer clock, in minutes.                    *)
(* A Python dict is a function whose DOMAIN is the set of its keys.        *)
(***************************************************************************)
EXTENDS Integers, Sequences, FiniteSets, TLC

\* dict.get(key, default)
Get(d, k, default) == IF k \in DOMAIN d THEN d[k] ELSE default

Max2(a, b) == IF a >= b THEN a ELSE b

Min2(a, b) == IF a <= b THEN a ELSE b

(***************************************************************************)
(* HealthPredictor.__init__                                                *)
(***************************************************************************)
model_version == "1.0.0"

\* self.thresholds; the temperature row is in tenths of a degree
thresholds ==
  [heart_rate  |-> [min |-> 60,  max |-> 100, critical_low |-> 50,  critical_high |-> 120],
   spo2        |-> [min |-> 92,  max |-> 100, critical_low |-> 88,  critical_high |-> 100],
   temperature |-> [min |-> 361, max |-> 372, critical_low |-> 355, critical_high |-> 380],
   systolic    |-> [min |-> 90,  max |-> 130, critical_low |-> 80,  critical_high |-> 150],
   diastolic   |-> [min |-> 60,  max |-> 85,  critical_low |-> 50,  critical_high |-> 95]]

\* self.altitude_factors as (breakpoint, factor in hundredths), in the order
\* sorted(..., reverse=True) visits them
altitude_factors ==
  << <<7000, 175>>, <<5500, 150>>, <<4000, 130>>, <<2500, 115>>, <<1000, 105>>, <<0, 100>> >>

(***************************************************************************)
(* The vital assessor                                                      *)
(***************************************************************************)
\* mutant: a value below critical_low is not critical
_assess_vital_no_critical_low(vital_name, value) ==
  LET t == thresholds[vital_name]
      critical == value > t.critical_high
      warning  == value < t.min \/ value > t.max
      status   == IF critical THEN "critical" ELSE IF warning THEN "warning" ELSE "normal"
      severity == IF critical THEN 2 ELSE IF warning THEN 1 ELSE 0
  IN  [value |-> value, status |-> status, severity |-> severity,
       in_range |-> (status = "normal")]

_assess_vital(vital_name, value) ==
  LET t == thresholds[vital_name]
      critical == value < t.critical_low \/ value > t.critical_high
      warning  == value < t.min \/ value > t.max
      status   == IF critical THEN "critical" ELSE IF warning THEN "warning" ELSE "normal"
      severity == IF critical THEN 2 ELSE IF warning THEN 1 ELSE 0
  IN  [value |-> value, status |-> status, severity |-> severity,
       in_range |-> (status = "normal")]

\* mutant: the severity is the lesser of the two
_assess_blood_pressure_min_severity(systolic, diastolic) ==
  LET sys_status == _assess_vital("systolic", systolic)
      dia_status == _assess_vital("diastolic", diastolic)
      overall_status ==
        IF sys_status.status = "critical" \/ dia_status.status = "critical" THEN "critical"
        ELSE IF sys_status.status = "warning" \/ dia_status.status = "warning" THEN "warning"
        ELSE "normal"
  IN  [systolic |-> sys_status.value, diastolic |-> dia_status.value,
       status |-> overall_status,
       severity |-> Min2(sys_status.severity, dia_status.severity),
       in_range |-> (sys_status.in_range /\ dia_status.in_range)]

_assess_blood_pressure(systolic, diastolic) ==
  LET sys_status == _assess_vital("systolic", systolic)
      dia_status == _assess_vital("diastolic", diastolic)
      overall_status ==
        IF sys_status.status = "critical" \/ dia_status.status = "critical" THEN "critical"
        ELSE IF sys_status.status = "warning" \/ dia_status.status = "warning" THEN "warning"
        ELSE "normal"
  IN  [systolic |-> sys_status.value, diastolic |-> dia_status.value,
       status |-> overall_status,
       severity |-> Max2(sys_status.severity, dia_status.severity),
       in_range |-> (sys_status.in_range /\ dia_status.in_range)]

\* mutant: the temperature deduction has the wrong sign
_calculate_health_score_sign_slip(hr_status, spo2_status, temp_status, bp_status) ==
  LET score == 100 - hr_status.severity * 15 - spo2_status.severity * 20
                   + temp_status.severity * 10 - bp_status.severity * 15
  IN  Max2(0, Min2(100, score))

_calculate_health_score(hr_status, spo2_status, temp_status, bp_status) ==
  LET score == 100 - hr_status.severity * 15 - spo2_status.severity * 20
                   - temp_status.severity * 10 - bp_status.severity * 15
  IN  Max2(0, Min2(100, score))

(***************************************************************************)
(* The risk predictors.  risk_score is in tenths of a percent.             *)
(***************************************************************************)
RECURSIVE AltitudeScan(_, _)
AltitudeScan(altitude, i) ==
  IF i > Len(altitude_factors) THEN 100
  ELSE IF altitude >= altitude_factors[i][1] THEN altitude_factors[i][2]
  ELSE AltitudeScan(altitude, i + 1)

\* mutant: the default below the lowest breakpoint is 0, not 1.0
_get_altitude_factor_default_0(altitude) ==
  IF altitude >= 0 THEN AltitudeScan(altitude, 1) ELSE 0

\* mutant: the scan starts after the highest breakpoint
_get_altitude_factor_skips_highest(altitude) == AltitudeScan(altitude, 2)

_get_altitude_factor(altitude) == AltitudeScan(altitude, 1)

\* 'high' if risk_score > 60 else 'moderate' if risk_score > 30 else 'low'
RiskLevel(risk_score) ==
  IF risk_score > 600 THEN "high" ELSE IF risk_score > 300 THEN "moderate" ELSE "low"

RiskPrediction(raw_score, confidence) ==
  LET risk_score == Min2(1000, raw_score)
  IN  [percentage |-> risk_score, level |-> RiskLevel(risk_score),
       confidence |-> confidence]

\* mutant: the altitude contribution has weight 50
_predict_hypoxia_risk_altitude_weight_50(spo2, altitude, heart_rate) ==
  LET s == IF spo2 < 88 THEN 600 ELSE IF spo2 < 92 THEN 300
           ELSE IF spo2 < 95 THEN 100 ELSE 0
      a == (_get_altitude_factor(altitude) - 100) * 5
      h == IF heart_rate > 100 THEN 100 ELSE 0
  IN  RiskPrediction(s + a + h, 85)

\* mutant: the heart rate contributes nothing
_predict_hypoxia_risk_no_tachycardia(spo2, altitude, heart_rate) ==
  LET s == IF spo2 < 88 THEN 600 ELSE IF spo2 < 92 THEN 300
           ELSE IF spo2 < 95 THEN 100 ELSE 0
      a == (_get_altitude_factor(altitude) - 100) * 3
  IN  RiskPrediction(s + a, 85)

_predict_hypoxia_risk(spo2, altitude, heart_rate) ==
  LET s == IF spo2 < 88 THEN 600 ELSE IF spo2 < 92 THEN 300
           ELSE IF spo2 < 95 THEN 100 ELSE 0
      \* (altitude_factor - 1.0) * 30, in tenths
      a == (_get_altitude_factor(altitude) - 100) * 3
      h == IF heart_rate > 100 THEN 100 ELSE 0
  IN  RiskPrediction(s + a + h, 85)

_predict_altitude_sickness(altitude, spo2, heart_rate) ==
  LET a == IF altitude > 5500 THEN 500 ELSE IF altitude > 4000 THEN 300
           ELSE IF altitude > 2500 THEN 100 ELSE 0
      s == IF spo2 < 90 THEN 300 ELSE IF spo2 < 94 THEN 150 ELSE 0
      h == IF heart_rate > 110 THEN 200 ELSE IF heart_rate > 95 THEN 100 ELSE 0
  IN  RiskPrediction(a + s + h, 80)

_predict_cardiac_stress(heart_rate, systolic, diastolic) ==
  LET h == IF heart_rate > 120 THEN 400 ELSE IF heart_rate > 100 THEN 200
           ELSE IF heart_rate < 50 THEN 300 ELSE 0
      b == IF systolic > 140 \/ diastolic > 90 THEN 300
           ELSE IF systolic > 130 \/ diastolic > 85 THEN 150 ELSE 0
      l == IF systolic < 90 \/ diastolic < 60 THEN 300 ELSE 0
  IN  RiskPrediction(h + b + l, 78)

_predict_hypothermia(temperature, altitude) ==
  LET t == IF temperature < 350 THEN 700 ELSE IF temperature < 355 THEN 400
           ELSE IF temperature < 360 THEN 200 ELSE 0
      a == IF altitude > 5000 THEN 150 ELSE IF altitude > 3000 THEN 50 ELSE 0
  IN  RiskPrediction(t + a, 82)

(***************************************************************************)
(* The risk aggregator                                                     *)
(***************************************************************************)
\* round(x, 1) of a value given in hundredths, to tenths: the nearest tenth,
\* an exact half going to the even neighbour as Python's round does
Round1(hundredths) ==
  LET q == hundredths \div 10
      r == hundredths % 10
  IN  IF r > 5 \/ (r = 5 /\ q % 2 = 1) THEN q + 1 ELSE q

_determine_overall_risk(hypoxia, altitude_sickness, cardiac, hypothermia) ==
  LET max_risk == Max2(Max2(hypoxia.percentage, altitude_sickness.percentage),
                       Max2(cardiac.percentage, hypothermia.percentage))
      total == hypoxia.percentage + altitude_sickness.percentage
                 + cardiac.percentage + hypothermia.percentage
      \* max_risk * 0.6 + (total / 4) * 0.4, in hundredths of a percent
      overall == max_risk * 6 + total
      level == IF overall > 7000 THEN "critical"
               ELSE IF overall > 5000 THEN "high"
               ELSE IF overall > 3000 THEN "moderate"
               ELSE "low"
  IN  [percentage |-> Round1(overall), level |-> level]

(***************************************************************************)
(* The recommendation generator                                            *)
(***************************************************************************)
Rec(priority, action, icon) == [priority |-> priority, action |-> action, icon |-> icon]

\* mutant: the general recommendation is never added
_generate_recommendations_no_routine(overall_risk, hr_status, spo2_status, temp_status, bp_status) ==
  LET r1 == IF overall_risk.level = "critical"
            THEN << Rec("CRITICAL", "Immediate medical evacuation required", "siren") >>
            ELSE << >>
      r2 == IF spo2_status.status = "critical"
            THEN << Rec("URGENT", "Administer supplemental oxygen immediately", "wind") >>
            ELSE IF spo2_status.status = "warning"
            THEN << Rec("HIGH", "Monitor oxygen saturation closely, consider oxygen therapy",
                        "warning") >>
            ELSE << >>
      r3 == IF hr_status.status = "critical"
            THEN << Rec("URGENT", "Cardiac assessment required - possible arrhythmia",
                        "heart") >>
            ELSE << >>
      r4 == IF temp_status.status = "critical"
            THEN IF temp_status.value < 355
                 THEN << Rec("URGENT",
                             "Hypothermia treatment - warm gradually, avoid extremes",
                             "thermometer") >>
                 ELSE << Rec("URGENT", "Hyperthermia treatment - cool down, hydrate",
                             "thermometer") >>
            ELSE << >>
      r5 == IF bp_status.status = "critical"
            THEN << Rec("HIGH", "Blood pressure management required", "bolt") >>
            ELSE << >>
      recommendations == r1 \o r2 \o r3 \o r4 \o r5
  IN  recommendations

\* mutant: the blood pressure entry is put first
_generate_recommendations_bp_first(overall_risk, hr_status, spo2_status, temp_status, bp_status) ==
  LET r1 == IF overall_risk.level = "critical"
            THEN << Rec("CRITICAL", "Immediate medical evacuation required", "siren") >>
            ELSE << >>
      r2 == IF spo2_status.status = "critical"
            THEN << Rec("URGENT", "Administer supplemental oxygen immediately", "wind") >>
            ELSE IF spo2_status.status = "warning"
            THEN << Rec("HIGH", "Monitor oxygen saturation closely, consider oxygen therapy",
                        "warning") >>
            ELSE << >>
      r3 == IF hr_status.status = "critical"
            THEN << Rec("URGENT", "Cardiac assessment required - possible arrhythmia",
                        "heart") >>
            ELSE << >>
      r4 == IF temp_status.status = "critical"
            THEN IF temp_status.value < 355
                 THEN << Rec("URGENT",
                             "Hypothermia treatment - warm gradually, avoid extremes",
                             "thermometer") >>
                 ELSE << Rec("URGENT", "Hyperthermia treatment - cool down, hydrate",
                             "thermometer") >>
            ELSE << >>
      r5 == IF bp_status.status = "critical"
            THEN << Rec("HIGH", "Blood pressure management required", "bolt") >>
            ELSE << >>
      recommendations == r5 \o r1 \o r2 \o r3 \o r4
  IN  IF overall_risk.level \in {"low", "moderate"} /\ Len(recommendations) = 0
      THEN << Rec("ROUTINE", "Continue standard monitoring protocol", "check") >>
      ELSE recommendations

_generate_recommendations(overall_risk, hr_status, spo2_status, temp_status, bp_status) ==
  LET r1 == IF overall_risk.level = "critical"
            THEN << Rec("CRITICAL", "Immediate medical evacuation required", "siren") >>
            ELSE << >>
      r2 == IF spo2_status.status = "critical"
            THEN << Rec("URGENT", "Administer supplemental oxygen immediately", "wind") >>
            ELSE IF spo2_status.status = "warning"
            THEN << Rec("HIGH", "Monitor oxygen saturation closely, consider oxygen therapy",
                        "warning") >>
            ELSE << >>
      r3 == IF hr_status.status = "critical"
            THEN << Rec("URGENT", "Cardiac assessment required - possible arrhythmia",
                        "heart") >>
            ELSE << >>
      r4 == IF temp_status.status = "critical"
            THEN IF temp_status.value < 355
                 THEN << Rec("URGENT",
                             "Hypothermia treatment - warm gradually, avoid extremes",
                             "thermometer") >>
                 ELSE << Rec("URGENT", "Hyperthermia treatment - cool down, hydrate",
                             "thermometer") >>
            ELSE << >>
      r5 == IF bp_status.status = "critical"
            THEN << Rec("HIGH", "Blood pressure management required", "bolt") >>
            ELSE << >>
      recommendations == r1 \o r2 \o r3 \o r4 \o r5
  IN  IF overall_risk.level \in {"low", "moderate"} /\ Len(recommendations) = 0
      THEN << Rec("ROUTINE", "Continue standard monitoring protocol", "check") >>
      ELSE recommendations

_predict_trend(health_score) ==
  IF health_score >= 85 THEN "stable"
  ELSE IF health_score >= 70 THEN "monitor"
  ELSE "deteriorating"

(***************************************************************************)
(* The orchestrator.  vitals is a dict; now is datetime.now().             *)
(***************************************************************************)
predict(vitals, now) ==
  LET heart_rate  == Get(vitals, "heart_rate", 72)
      spo2        == Get(vitals, "spo2", 96)
      temperature == Get(vitals, "temperature", 368)
      systolic    == Get(vitals, "systolic", 120)
      diastolic   == Get(vitals, "diastolic", 80)
      altitude    == Get(vitals, "altitude", 0)
      hr_status   == _assess_vital("heart_rate", heart_rate)
      spo2_status == _assess_vital("spo2", spo2)
      temp_status == _assess_vital("temperature", temperature)
      bp_status   == _assess_blood_pressure(systolic, diastolic)
      health_score == _calculate_health_score(hr_status, spo2_status, temp_status, bp_status)
      hypoxia_risk           == _predict_hypoxia_risk(spo2, altitude, heart_rate)
      altitude_sickness_risk == _predict_altitude_sickness(altitude, spo2, heart_rate)
      cardiac_stress_risk    == _predict_cardiac_stress(heart_rate, systolic, diastolic)
      hypothermia_risk       == _predict_hypothermia(temperature, altitude)
      overall_risk == _determine_overall_risk(hypoxia_risk, altitude_sickness_risk,
                                              cardiac_stress_risk, hypothermia_risk)
      recommendations == _generate_recommendations(overall_risk, hr_status, spo2_status,
                                                   temp_status, bp_status)
  IN  [health_score |-> health_score,
       overall_risk_level |-> overall_risk.level,
       overall_risk_percentage |-> overall_risk.percentage,
       vital_assessments |-> [heart_rate |-> hr_status, spo2 |-> spo2_status,
                              temperature |-> temp_status, blood_pressure |-> bp_status],
       risk_predictions |-> [hypoxia |-> hypoxia_risk,
                             altitude_sickness |-> altitude_sickness_risk,
                             cardiac_stress |-> cardiac_stress_risk,
                             hypothermia |-> hypothermia_risk],
       recommendations |-> recommendations,
       health_trend |-> _predict_trend(health_score),
       altitude_adjustment |-> _get_altitude_factor(altitude),
       predicted_at |-> now,
       model_version |-> model_version]

\* risks.sort(key=percentage, reverse=True)[:3]; the sort is stable, so equal
\* percentages keep the order hypoxia, altitude sickness, cardiac, hypothermia
_get_top_risks(risk_predictions) ==
  LET risks == << [name |-> "Hypoxia"] @@ risk_predictions.hypoxia,
                  [name |-> "Altitude Sickness"] @@ risk_predictions.altitude_sickness,
                  [name |-> "Cardiac Stress"] @@ risk_predictions.cardiac_stress,
                  [name |-> "Hypothermia"] @@ risk_predictions.hypothermia >>
      \* the number of entries sorted before entry i
      rank(i) == Cardinality({j \in 1..4 :
                     \/ risks[j].percentage > risks[i].percentage
                     \/ (risks[j].percentage = risks[i].percentage /\ j < i)})
  IN  [k \in 1..3 |-> risks[CHOOSE i \in 1..4 : rank(i) = k - 1]]

predict_risk_level(vitals, now) ==
  LET full_prediction == predict(vitals, now)
  IN  [risk_level |-> full_prediction.overall_risk_level,
       risk_percentage |-> full_prediction.overall_risk_percentage,
       health_score |-> full_prediction.health_score,
       top_risks |-> _get_top_risks(full_prediction.risk_predictions)]

(***************************************************************************)
(* DatabaseManager.  A table is the sequence of its rows in id order (ids   *)
(* are AUTOINCREMENT and no row is ever deleted, so row i has id i).  The   *)
(* program holds one sqlite connection: vitals and alerts are the tables as *)
(* that connection sees them, committed is what conn.commit() last made     *)
(* durable and conn.rollback() returns to.                                  *)
(***************************************************************************)
\* timedelta(minutes=10)
SuppressionWindow == 10

\* a NULL column
NULL == -1

Levels == {"low", "moderate", "high", "critical"}

\* mutant: the gate lets every level but low through
AlertLevels_not_low == {"moderate", "high", "critical"}

AlertLevels == {"high", "critical"}

\* the row INSERT INTO vitals adds (the columns the alert logic and the
\* history queries read)
VitalsRow(id, data, ml_analysis, now) ==
  [id |-> id,
   soldier_id |-> Get(data, "soldier_id", "none"),
   health_score |-> Get(ml_analysis, "health_score", NULL),
   risk_level |-> Get(ml_analysis, "overall_risk_level", "none"),
   risk_percentage |-> Get(ml_analysis, "overall_risk_percentage", NULL),
   created_at |-> now]

\* mutant: the comparison with the cutoff is turned around
CountRecent_older(rows, soldier_id, severity, since) ==
  Cardinality({i \in 1..Len(rows) :
                 /\ rows[i].soldier_id = soldier_id
                 /\ rows[i].severity = severity
                 /\ ~rows[i].acknowledged
                 /\ rows[i].created_at <= since})

\* mutant: the query has no cutoff
CountRecent_no_cutoff(rows, soldier_id, severity, since) ==
  Cardinality({i \in 1..Len(rows) :
                 /\ rows[i].soldier_id = soldier_id
                 /\ rows[i].severity = severity
                 /\ ~rows[i].acknowledged})

\* mutant: the query counts acknowledged records too
CountRecent_any_ack(rows, soldier_id, severity, since) ==
  Cardinality({i \in 1..Len(rows) :
                 /\ rows[i].soldier_id = soldier_id
                 /\ rows[i].severity = severity
                 /\ rows[i].created_at >= since})

\* SELECT COUNT(*) FROM alerts WHERE soldier_id = ? AND severity = ?
\*   AND acknowledged = 0 AND created_at >= ?
CountRecent(rows, soldier_id, severity, since) ==
  Cardinality({i \in 1..Len(rows) :
                 /\ rows[i].soldier_id = soldier_id
                 /\ rows[i].severity = severity
                 /\ ~rows[i].acknowledged
                 /\ rows[i].created_at >= since})

\* mutant: an empty list of recommendations gives an empty message
AlertMessage_no_fallback(ml_analysis) ==
  LET recommendations == Get(ml_analysis, "recommendations", << >>)
  IN  IF Len(recommendations) > 0 THEN recommendations[1].action
      ELSE ""

\* message = recommendations[0]['action'] if recommendations else 'Health risk detected'
AlertMessage(ml_analysis) ==
  LET recommendations == Get(ml_analysis, "recommendations", << >>)
  IN  IF Len(recommendations) > 0 THEN recommendations[1].action
      ELSE "Health risk detected"

\* the row INSERT INTO alerts adds
AlertRow(id, data, ml_analysis, risk_level, now) ==
  [id |-> id,
   soldier_id |-> Get(data, "soldier_id", "none"),
   alert_type |-> "HEALTH_RISK",
   severity |-> risk_level,
   message |-> AlertMessage(ml_analysis),
   vitals_snapshot |-> [heart_rate |-> Get(data, "heart_rate", NULL),
                        spo2 |-> Get(data, "spo2", NULL),
                        temperature |-> Get(data, "temperature", NULL),
                        risk_percentage |-> Get(ml_analysis, "overall_risk_percentage", NULL)],
   acknowledged |-> FALSE,
   acknowledged_at |-> NULL,
   created_at |-> now]

\* The statements of store_vitals and _check_and_create_alert that can raise
Faults == {"none", "vitals_insert", "select", "alert_insert"}

\* mutant: the failing insert leaves its row behind
_check_and_create_alert_keeps_row(rows, data, ml_analysis, now, fault) ==
  LET risk_level == Get(ml_analysis, "overall_risk_level", "low")
      existing_count == CountRecent(rows, Get(data, "soldier_id", "none"),
                                    risk_level, now - SuppressionWindow)
      added == Append(rows, AlertRow(Len(rows) + 1, data, ml_analysis, risk_level, now))
  IN  IF risk_level \notin AlertLevels THEN [alerts |-> rows, raised |-> "none"]
      ELSE IF fault = "select" THEN [alerts |-> rows, raised |-> "select"]
      ELSE IF existing_count > 0 THEN [alerts |-> rows, raised |-> "none"]
      ELSE [alerts |-> added,
            raised |-> IF fault = "alert_insert" THEN "alert_insert" ELSE "none"]

\* _check_and_create_alert run to its end on the alerts table: raised names
\* the statement that raised, if one did (the exception leaves the method)
_check_and_create_alert(rows, data, ml_analysis, now, fault) ==
  LET risk_level == Get(ml_analysis, "overall_risk_level", "low")
      ten_min_ago == now - SuppressionWindow
      existing_count == CountRecent(rows, Get(data, "soldier_id", "none"),
                                    risk_level, ten_min_ago)
  IN  IF risk_level \notin AlertLevels THEN [alerts |-> rows, raised |-> "none"]
      ELSE IF fault = "select" THEN [alerts |-> rows, raised |-> "select"]
      ELSE IF existing_count > 0 THEN [alerts |-> rows, raised |-> "none"]
      ELSE IF fault = "alert_insert" THEN [alerts |-> rows, raised |-> "alert_insert"]
      ELSE [alerts |-> Append(rows, AlertRow(Len(rows) + 1, data, ml_analysis,
                                             risk_level, now)),
            raised |-> "none"]

\* store_vitals run to its end: the tables it leaves (every path ends in a
\* commit or a rollback, so they are also the durable ones) and its return value
store_vitals(db, data, now, fault) ==
  LET ml_analysis == Get(data, "ml_analysis", << >>)
      inserted == Append(db.vitals, VitalsRow(Len(db.vitals) + 1, data, ml_analysis, now))
      checked == _check_and_create_alert(db.alerts, data, ml_analysis, now, fault)
  IN  IF fault = "vitals_insert"
      THEN [vitals |-> db.vitals, alerts |-> db.alerts, ret |-> FALSE,
            raised |-> "vitals_insert"]
      ELSE [vitals |-> inserted, alerts |-> checked.alerts,
            ret |-> (checked.raised = "none"), raised |-> checked.raised]

\* UPDATE alerts SET acknowledged = 1, acknowledged_at = ? WHERE id = ?
acknowledge_alert(rows, alert_id, now, fault) ==
  IF fault THEN [alerts |-> rows, ret |-> FALSE]
  ELSE [alerts |-> [i \in 1..Len(rows) |->
                      IF rows[i].id = alert_id
                      THEN [rows[i] EXCEPT !.acknowledged = TRUE, !.acknowledged_at = now]
                      ELSE rows[i]],
        ret |-> TRUE]

(***************************************************************************)
(* The inputs of the model                                                 *)
(***************************************************************************)
Soldiers == {"SOL-1", "SOL-2"}

Reading(soldier_id, heart_rate, spo2, temperature, systolic, diastolic, altitude) ==
  [soldier_id |-> soldier_id, heart_rate |-> heart_rate, spo2 |-> spo2,
   temperature |-> temperature, systolic |-> systolic, diastolic |-> diastolic,
   altitude |-> altitude]

\* the request bodies posted to /api/vitals: a high and a critical reading
\* per soldier, a low and a moderate one, and a body without heart_rate
Bodies ==
  UNION {{Reading(s, 125, 90, 368, 120, 80, 4500),
          Reading(s, 115, 82, 365, 140, 90, 6200)} : s \in Soldiers}
  \cup {Reading("SOL-1", 72, 96, 368, 120, 80, 5400),
        Reading("SOL-1", 105, 93, 368, 120, 80, 4500),
        [soldier_id |-> "SOL-1", spo2 |-> 96, temperature |-> 368]}

\* minutes between two requests
Delays == {1, 10}

(***************************************************************************)
(* app.py: the /api/vitals handler                                         *)
(***************************************************************************)
required_fields == {"soldier_id", "heart_rate", "spo2", "temperature"}

\* the vitals dict receive_vitals builds from a body that has the required fields
ExtractVitals(data, now) ==
  [soldier_id |-> data.soldier_id,
   heart_rate |-> data.heart_rate,
   spo2 |-> data.spo2,
   temperature |-> data.temperature,
   systolic |-> Get(data, "systolic", 120),
   diastolic |-> Get(data, "diastolic", 80),
   altitude |-> Get(data, "altitude", 0),
   timestamp |-> Get(data, "timestamp", now)]

\* receive_vitals run to its end on the tables db: 400 when a required field
\* is missing, else the reading with its defaults is assessed and stored and
\* the answer is 200 whatever store_vitals returned
\* the vitals of the body with the engine's analysis, as receive_vitals
\* hands them to store_vitals
ResponseData(data, now) ==
  LET vitals_in == ExtractVitals(data, now)
      ml_results == predict(vitals_in, now)
  IN  vitals_in @@ [ml_analysis |-> ml_results, processed_at |-> now]

receive_vitals(db, data, now, fault) ==
  IF ~(required_fields \subseteq DOMAIN data)
  THEN [vitals |-> db.vitals, alerts |-> db.alerts, status |-> 400,
        response_data |-> << >>, ret |-> FALSE, raised |-> "none"]
  ELSE LET response_data == ResponseData(data, now)
           stored == store_vitals(db, response_data, now, fault)
       IN  [vitals |-> stored.vitals, alerts |-> stored.alerts, status |-> 200,
            response_data |-> response_data, ret |-> stored.ret,
            raised |-> stored.raised]

(***************************************************************************)
(* The server, handling its requests one after another.  A request arrives *)
(* some minutes after the one before it and is handled within the minute.  *)
(***************************************************************************)
\* the most requests handled in one behaviour
MaxRequests == 3

\* the most storage failures in one behaviour
MaxFaults == 1

VARIABLES
  clock,      \* datetime.now(), in minutes
  vitals,     \* the vitals table
  alerts,     \* the alerts table
  last,       \* the last request handled: its input, its outcome, the tables before it
  handled,    \* the number of requests handled
  faults,     \* the number of storage failures so far
  request,    \* EngineSpec: the dict handed to the engine
  outcome,    \* EngineSpec: which entry was called and what it gave
  calls,      \* RepeatSpec: the calls of predict so far, each with its result
  severities, \* ScoreSpec: the severity of each of the four vital assessments
  health_score, \* ScoreSpec: the score of severities, once computed
  scored_before, \* ScoreSpec: the severities scored before these, and their score
  pc,         \* ConcSpec: the statement each thread is at
  loc,        \* ConcSpec: the local variables of each thread
  cursor,     \* ConcSpec: the pending result set of the one shared cursor
  committed   \* ConcSpec: the tables as of the connection's last commit

dbVars == <<clock, vitals, alerts, last, handled, faults>>

engineVars == <<request, outcome, calls>>

scoreVars == <<severities, health_score, scored_before>>

concVars == <<pc, loc, cursor, committed>>

vars == <<dbVars, engineVars, scoreVars, concVars>>

NoRequest ==
  [op |-> "none", data |-> << >>, status |-> 0, ret |-> FALSE, raised |-> "none",
   alert_id |-> 0, alerts_before |-> << >>, vitals_before |-> << >>]

NoOutcome == [entry |-> "none", error |-> FALSE, status |-> 0, result |-> << >>]

DbInit ==
  /\ clock = 0
  /\ vitals = << >>
  /\ alerts = << >>
  /\ last = NoRequest
  /\ handled = 0
  /\ faults = 0

EngineIdle ==
  /\ request = << >>
  /\ outcome = NoOutcome
  /\ calls = << >>

ScoreIdle ==
  /\ severities = << >>
  /\ health_score = NULL
  /\ scored_before = << >>

Threads == {"t1", "t2"}

NoLocals == [data |-> << >>, existing_count |-> NULL, inserted |-> FALSE, ret |-> "none"]

ConcIdle ==
  /\ pc = [t \in Threads |-> "idle"]
  /\ loc = [t \in Threads |-> NoLocals]
  /\ cursor = << >>
  /\ committed = [vitals |-> << >>, alerts |-> << >>]

Init == DbInit /\ EngineIdle /\ ScoreIdle /\ ConcIdle

\* the fault raises only if the statement it names is reached
ReceiveVitals(data, fault, delay) ==
  /\ handled < MaxRequests
  /\ fault # "none" => faults < MaxFaults
  /\ handled' = handled + 1
  /\ clock' = clock + delay
  /\ \E r \in {receive_vitals([vitals |-> vitals, alerts |-> alerts], data,
                                clock + delay, fault)} :
         /\ fault = r.raised
         /\ vitals' = r.vitals
         /\ alerts' = r.alerts
         /\ last' = [op |-> "receive_vitals", data |-> r.response_data,
                     status |-> r.status, ret |-> r.ret, raised |-> r.raised,
                     alert_id |-> 0, alerts_before |-> alerts,
                     vitals_before |-> vitals]
  /\ faults' = IF fault = "none" THEN faults ELSE faults + 1
  /\ UNCHANGED <<engineVars, scoreVars, concVars>>

AcknowledgeAlert(alert_id, fault, delay) ==
  /\ handled < MaxRequests
  /\ fault => faults < MaxFaults
  /\ handled' = handled + 1
  /\ clock' = clock + delay
  /\ \E r \in {acknowledge_alert(alerts, alert_id, clock + delay, fault)} :
         /\ alerts' = r.alerts
         /\ last' = [op |-> "acknowledge_alert", data |-> << >>, status |-> 0,
                     ret |-> r.ret, raised |-> IF fault THEN "update" ELSE "none",
                     alert_id |-> alert_id, alerts_before |-> alerts,
                     vitals_before |-> vitals]
  /\ faults' = IF fault THEN faults + 1 ELSE faults
  /\ UNCHANGED <<vitals, engineVars, scoreVars, concVars>>

Next ==
  \/ \E data \in Bodies, fault \in Faults, delay \in Delays :
       ReceiveVitals(data, fault, delay)
  \/ \E alert_id \in 1..(Len(alerts) + 1), fault \in BOOLEAN, delay \in Delays :
       AcknowledgeAlert(alert_id, fault, delay)

Spec == Init /\ [][Next]_vars

(***************************************************************************)
(* EngineSpec: one call into the engine, by each of its entries, on a dict  *)
(* drawn from a grid with a value in every band of every rule, or on a part *)
(* of a full reading.                                                       *)
(***************************************************************************)
Grid ==
  [heart_rate  : {-50, 55, 72, 98, 105, 115, 10000},
   spo2        : {82, 89, 91, 93, 94, 96, 101},
   temperature : {340, 352, 358, 360, 368, 375, 390},
   systolic    : {70, 85, 120, 135, 145, 160},
   diastolic   : {45, 80, 93},
   altitude    : {-100, 0, 1000, 2600, 3500, 4000, 4500, 5400, 5500, 6200, 7001}]

\* the dict d without the keys outside K
Restrict(d, K) == [k \in K \cap DOMAIN d |-> d[k]]

\* every part of three full request bodies
Partial ==
  {Restrict(b, K) : b \in {Reading("SOL-1", 72, 96, 368, 120, 80, 5400),
                           Reading("SOL-1", 115, 82, 365, 140, 90, 6200),
                           Reading("SOL-1", 115, 93, 358, 120, 80, 7001)},
                    K \in SUBSET {"soldier_id", "heart_rate", "spo2", "temperature",
                                  "systolic", "diastolic", "altitude"}}

\* the two readings of the module's own tests
test_vitals_1 ==
  [heart_rate |-> 72, spo2 |-> 96, temperature |-> 368, systolic |-> 120,
   diastolic |-> 80, altitude |-> 5400]

test_vitals_2 ==
  [heart_rate |-> 115, spo2 |-> 82, temperature |-> 365, systolic |-> 140,
   diastolic |-> 90, altitude |-> 6200]

EngineInit ==
  /\ DbInit
  /\ ScoreIdle
  /\ ConcIdle
  /\ request \in Grid \cup Partial
  /\ outcome = NoOutcome
  /\ calls = << >>

\* ml_model.predict(request): a dict always gives a result
CallPredict ==
  /\ outcome.entry = "none"
  /\ outcome' = [entry |-> "predict", error |-> FALSE, status |-> 0,
                 result |-> predict(request, clock)]
  /\ UNCHANGED <<dbVars, request, calls, scoreVars, concVars>>

\* ml_model.predict_risk_level(request)
CallPredictRiskLevel ==
  /\ outcome.entry = "none"
  /\ request \in Partial
  /\ outcome' = [entry |-> "predict_risk_level", error |-> FALSE, status |-> 0,
                 result |-> predict_risk_level(request, clock)]
  /\ UNCHANGED <<dbVars, request, calls, scoreVars, concVars>>

\* POST /api/predict/risk with body request: no field is checked
predict_risk(data, now) ==
  [status |-> 200, prediction |-> predict_risk_level(data, now)]

ApiPredictRisk ==
  /\ outcome.entry = "none"
  /\ request \in Partial
  /\ \E r \in {predict_risk(request, clock)} :
       outcome' = [entry |-> "api_predict_risk", error |-> r.status # 200,
                   status |-> r.status, result |-> r.prediction]
  /\ UNCHANGED <<dbVars, request, calls, scoreVars, concVars>>

\* POST /api/vitals with body request
ApiVitals ==
  /\ outcome.entry = "none"
  /\ request \in Partial
  /\ \E r \in {receive_vitals([vitals |-> vitals, alerts |-> alerts], request, clock,
                              "none")} :
       /\ vitals' = r.vitals
       /\ alerts' = r.alerts
       /\ outcome' = [entry |-> "api_vitals", error |-> r.status # 200,
                      status |-> r.status,
                      result |-> Get(r.response_data, "ml_analysis", << >>)]
  /\ UNCHANGED <<clock, last, handled, faults, request, calls, scoreVars, concVars>>

EngineNext ==
  \/ CallPredict
  \/ CallPredictRiskLevel
  \/ ApiPredictRisk
  \/ ApiVitals

EngineSpec == EngineInit /\ [][EngineNext]_vars

(***************************************************************************)
(* RepeatSpec: predict called again and again on the one HealthPredictor    *)
(* the server holds, on any of a few readings, as time passes.  predict     *)
(* assigns no attribute of the object, so a call is one step.               *)
(***************************************************************************)
\* the most calls of predict in one behaviour
MaxPredicts == 3

RepeatReadings ==
  {test_vitals_1, test_vitals_2,
   [heart_rate |-> 105, spo2 |-> 93, temperature |-> 368, systolic |-> 120,
    diastolic |-> 80, altitude |-> 4500],
   Restrict(test_vitals_2, {"spo2", "altitude"})}

RepeatInit == DbInit /\ EngineIdle /\ ScoreIdle /\ ConcIdle

\* mutant: the trend is taken from the score of the call before
RepeatPredict_trend_from_history(v, delay) ==
  /\ Len(calls) < MaxPredicts
  /\ clock' = clock + delay
  /\ \E r \in {predict(v, clock + delay)} :
       calls' = Append(calls,
                  [vitals |-> v,
                   result |-> IF calls # << >>
                                 /\ calls[Len(calls)].result.health_score > r.health_score
                              THEN [r EXCEPT !.health_trend = "deteriorating"]
                              ELSE r])
  /\ UNCHANGED <<vitals, alerts, last, handled, faults, request, outcome,
                 scoreVars, concVars>>

\* ml_model.predict(v), delay minutes after the call before
RepeatPredict(v, delay) ==
  /\ Len(calls) < MaxPredicts
  /\ clock' = clock + delay
  /\ calls' = Append(calls, [vitals |-> v, result |-> predict(v, clock + delay)])
  /\ UNCHANGED <<vitals, alerts, last, handled, faults, request, outcome,
                 scoreVars, concVars>>

RepeatNext == \E v \in RepeatReadings, delay \in 0..1 : RepeatPredict(v, delay)

RepeatSpec == RepeatInit /\ [][RepeatNext]_vars

(***************************************************************************)
(* AltitudeSpec: _get_altitude_factor on pairs of altitudes, among them the *)
(* breakpoints and their neighbours.                                        *)
(***************************************************************************)
Altitudes ==
  {-1000, -1, 0, 1, 999, 1000, 1001, 2499, 2500, 2501, 3999, 4000, 5400, 5499,
   5500, 6200, 6999, 7000, 7001, 100000}

AltitudeInit ==
  /\ DbInit
  /\ ScoreIdle
  /\ ConcIdle
  /\ request \in [a1 : Altitudes, a2 : Altitudes]
  /\ outcome = NoOutcome
  /\ calls = << >>

LookUpFactors ==
  /\ outcome.entry = "none"
  /\ outcome' = [entry |-> "_get_altitude_factor", error |-> FALSE, status |-> 0,
                 result |-> [f1 |-> _get_altitude_factor(request.a1),
                             f2 |-> _get_altitude_factor(request.a2)]]
  /\ UNCHANGED <<dbVars, request, calls, scoreVars, concVars>>

AltitudeNext == LookUpFactors

AltitudeSpec == AltitudeInit /\ [][AltitudeNext]_vars

(***************************************************************************)
(* AggregateSpec: _determine_overall_risk on four risk predictions, each    *)
(* with a percentage of the set below (tenths of a percent).                *)
(***************************************************************************)
Percentages == {0, 1, 200, 300, 315, 400, 615, 700, 1000}

AggregateInit ==
  /\ DbInit
  /\ ScoreIdle
  /\ ConcIdle
  /\ request \in [hypoxia : Percentages, altitude_sickness : Percentages,
                  cardiac : Percentages, hypothermia : Percentages]
  /\ outcome = NoOutcome
  /\ calls = << >>

Aggregate ==
  /\ outcome.entry = "none"
  /\ outcome' = [entry |-> "_determine_overall_risk", error |-> FALSE, status |-> 0,
                 result |-> _determine_overall_risk(
                              RiskPrediction(request.hypoxia, 85),
                              RiskPrediction(request.altitude_sickness, 80),
                              RiskPrediction(request.cardiac, 78),
                              RiskPrediction(request.hypothermia, 82))]
  /\ UNCHANGED <<dbVars, request, calls, scoreVars, concVars>>

AggregateNext == Aggregate

AggregateSpec == AggregateInit /\ [][AggregateNext]_vars

(***************************************************************************)
(* ScoreSpec: _calculate_health_score on every tuple of severities, and on  *)
(* the tuples got from one by raising one severity.                         *)
(***************************************************************************)
Assessed == {"heart_rate", "spo2", "temperature", "blood_pressure"}

\* a status dict with the given severity, as _assess_vital builds it
StatusOf(severity) ==
  [value |-> 0,
   status |-> IF severity = 2 THEN "critical" ELSE IF severity = 1 THEN "warning"
              ELSE "normal",
   severity |-> severity,
   in_range |-> (severity = 0)]

ScoreOf(sev) ==
  _calculate_health_score(StatusOf(sev.heart_rate), StatusOf(sev.spo2),
                          StatusOf(sev.temperature), StatusOf(sev.blood_pressure))

ScoreInit ==
  /\ DbInit
  /\ EngineIdle
  /\ ConcIdle
  /\ severities \in [Assessed -> 0..2]
  /\ health_score = NULL
  /\ scored_before = << >>

Score ==
  /\ health_score = NULL
  /\ health_score' = ScoreOf(severities)
  /\ UNCHANGED <<dbVars, engineVars, concVars, severities, scored_before>>

\* one severity is raised and the tuple scored again
Worsen(k, v) ==
  /\ health_score # NULL
  /\ v > severities[k]
  /\ scored_before' = [severities |-> severities, health_score |-> health_score]
  /\ severities' = [severities EXCEPT ![k] = v]
  /\ health_score' = ScoreOf(severities')
  /\ UNCHANGED <<dbVars, engineVars, concVars>>

ScoreNext ==
  \/ Score
  \/ \E k \in Assessed, v \in 0..2 : Worsen(k, v)

ScoreSpec == ScoreInit /\ [][ScoreNext]_vars

(***************************************************************************)
(* ConcSpec: two worker threads of the server inside store_vitals at once.  *)
(* DatabaseManager has one connection and one cursor, opened with           *)
(* check_same_thread=False, and takes no lock: a thread can be preempted    *)
(* between any two statements.  vitals and alerts are what the connection   *)
(* sees; a commit makes all of it durable, a rollback returns to the last   *)
(* commit.                                                                  *)
(***************************************************************************)
\* the most calls of store_vitals in one behaviour
MaxCalls == 2

\* the last minute of the clock
MaxClock == 1

ConcBodies == {b \in Bodies : required_fields \subseteq DOMAIN b /\ b.soldier_id = "SOL-1"}

ConcInit == DbInit /\ EngineIdle /\ ScoreIdle /\ ConcIdle

Goto(t, label) == pc' = [pc EXCEPT ![t] = label]

Return(t, ret) ==
  /\ pc' = [pc EXCEPT ![t] = "done"]
  /\ loc' = [loc EXCEPT ![t].ret = ret]

\* receive_vitals up to its call of store_vitals
Begin(t, data) ==
  /\ pc[t] \in {"idle", "done"}
  /\ handled < MaxCalls
  /\ handled' = handled + 1
  /\ loc' = [loc EXCEPT ![t] = [NoLocals EXCEPT !.data = ResponseData(data, clock)]]
  /\ Goto(t, "insert_vitals")
  /\ UNCHANGED <<clock, vitals, alerts, last, faults, cursor, committed,
                 engineVars, scoreVars>>

\* cursor.execute(INSERT INTO vitals ...)
InsertVitals(t) ==
  /\ pc[t] = "insert_vitals"
  /\ vitals' = Append(vitals, VitalsRow(Len(vitals) + 1, loc[t].data,
                                        Get(loc[t].data, "ml_analysis", << >>), clock))
  /\ cursor' = << >>
  /\ Goto(t, "commit_vitals")
  /\ UNCHANGED <<clock, alerts, last, handled, faults, loc, committed,
                 engineVars, scoreVars>>

\* conn.commit() after the vitals insert
CommitVitals(t) ==
  /\ pc[t] = "commit_vitals"
  /\ committed' = [vitals |-> vitals, alerts |-> alerts]
  /\ Goto(t, "select")
  /\ UNCHANGED <<dbVars, loc, cursor, engineVars, scoreVars>>

\* _check_and_create_alert: the gate on the level, and the SELECT COUNT(*)
Select(t) ==
  /\ pc[t] = "select"
  /\ LET ml_analysis == Get(loc[t].data, "ml_analysis", << >>)
         risk_level == Get(ml_analysis, "overall_risk_level", "low")
         ten_min_ago == clock - SuppressionWindow
     IN  IF risk_level \in AlertLevels
         THEN /\ cursor' = <<CountRecent(alerts, Get(loc[t].data, "soldier_id", "none"),
                                         risk_level, ten_min_ago)>>
              /\ Goto(t, "fetch")
              /\ UNCHANGED loc
         ELSE /\ Return(t, "True")
              /\ UNCHANGED cursor
  /\ UNCHANGED <<dbVars, committed, engineVars, scoreVars>>

\* existing_count = cursor.fetchone()[0], and the test on it.  fetchone()
\* gives None when another thread's statement has replaced the result set,
\* and None[0] raises
Fetch(t) ==
  /\ pc[t] = "fetch"
  /\ IF cursor = << >>
     THEN /\ Goto(t, "except")
          /\ UNCHANGED <<loc, cursor>>
     ELSE /\ cursor' = << >>
          /\ IF cursor[1] > 0
             THEN /\ pc' = [pc EXCEPT ![t] = "done"]
                  /\ loc' = [loc EXCEPT ![t].existing_count = cursor[1], ![t].ret = "True"]
             ELSE /\ Goto(t, "insert_alert")
                  /\ loc' = [loc EXCEPT ![t].existing_count = cursor[1]]
  /\ UNCHANGED <<dbVars, committed, engineVars, scoreVars>>

\* cursor.execute(INSERT INTO alerts ...)
InsertAlert(t) ==
  /\ pc[t] = "insert_alert"
  /\ LET ml_analysis == Get(loc[t].data, "ml_analysis", << >>)
         risk_level == Get(ml_analysis, "overall_risk_level", "low")
     IN  alerts' = Append(alerts, AlertRow(Len(alerts) + 1, loc[t].data, ml_analysis,
                                           risk_level, clock))
  /\ cursor' = << >>
  /\ loc' = [loc EXCEPT ![t].inserted = TRUE]
  /\ Goto(t, "commit_alert")
  /\ UNCHANGED <<clock, vitals, last, handled, faults, committed,
                 engineVars, scoreVars>>

\* conn.commit() after the alert insert, and return True
CommitAlert(t) ==
  /\ pc[t] = "commit_alert"
  /\ committed' = [vitals |-> vitals, alerts |-> alerts]
  /\ Return(t, "True")
  /\ UNCHANGED <<dbVars, cursor, engineVars, scoreVars>>

\* except Exception: conn.rollback(), and return False
Except(t) ==
  /\ pc[t] = "except"
  /\ vitals' = committed.vitals
  /\ alerts' = committed.alerts
  /\ Return(t, "False")
  /\ UNCHANGED <<clock, last, handled, faults, cursor, committed,
                 engineVars, scoreVars>>

\* a minute passes
ConcTick ==
  /\ clock < MaxClock
  /\ clock' = clock + 1
  /\ UNCHANGED <<vitals, alerts, last, handled, faults, engineVars, scoreVars, concVars>>

ConcNext ==
  \/ \E t \in Threads, data \in ConcBodies : Begin(t, data)
  \/ \E t \in Threads : InsertVitals(t)
  \/ \E t \in Threads : CommitVitals(t)
  \/ \E t \in Threads : Select(t)
  \/ \E t \in Threads : Fetch(t)
  \/ \E t \in Threads : InsertAlert(t)
  \/ \E t \in Threads : CommitAlert(t)
  \/ \E t \in Threads : Except(t)
  \/ ConcTick

ConcSpec == ConcInit /\ [][ConcNext]_vars

(***************************************************************************)
(* Claims about the alert de-duplication, under Spec                       *)
(***************************************************************************)
\* the last request was a reading that /api/vitals assessed and passed to store_vitals
StoredReading == last.op = "receive_vitals" /\ last.status = 200

LastLevel == last.data.ml_analysis.overall_risk_level

\* the rows of a table for one soldier and severity
RowsOf(rows, soldier_id, severity) ==
  {i \in 1..Len(rows) : rows[i].soldier_id = soldier_id /\ rows[i].severity = severity}

\* C1: for every soldier and severity, no two unacknowledged alert records
\* have creation times within 10 minutes of each other.
C1_NoTwoUnackedWithinWindow ==
  \A i, j \in 1..Len(alerts) :
    ( /\ i < j
      /\ alerts[i].soldier_id = alerts[j].soldier_id
      /\ alerts[i].severity = alerts[j].severity
      /\ ~alerts[i].acknowledged
      /\ ~alerts[j].acknowledged )
    => alerts[j].created_at - alerts[i].created_at > 10

\* two unacknowledged records of one soldier and severity exist
C1_Witness ==
  \E i, j \in 1..Len(alerts) :
    /\ i < j
    /\ alerts[i].soldier_id = alerts[j].soldier_id
    /\ alerts[i].severity = alerts[j].severity
    /\ ~alerts[i].acknowledged
    /\ ~alerts[j].acknowledged

\* the creation times of the stored readings of a soldier that were classified
\* high, oldest first
RECURSIVE HighTimes(_, _)
HighTimes(soldier_id, n) ==
  IF n = 0 THEN << >>
  ELSE IF vitals[n].soldier_id = soldier_id /\ vitals[n].risk_level = "high"
       THEN Append(HighTimes(soldier_id, n - 1), vitals[n].created_at)
       ELSE HighTimes(soldier_id, n - 1)

\* C3: with no storage failure and no acknowledgement, two high readings of a
\* soldier stored less than 10 minutes apart leave exactly one high alert
\* record, and a third stored more than 10 minutes after the first leaves
\* exactly two.
C3_SuppressionWindow ==
  \A s \in Soldiers :
    LET h == HighTimes(s, Len(vitals))
        n == Cardinality(RowsOf(alerts, s, "high"))
        quiet == faults = 0 /\ \A i \in RowsOf(alerts, s, "high") : ~alerts[i].acknowledged
    IN  quiet =>
          /\ (Len(h) = 1) => n = 1
          /\ (Len(h) = 2 /\ h[2] - h[1] < 10) => n = 1
          /\ (Len(h) = 3 /\ h[2] - h[1] < 10 /\ h[3] - h[1] > 10) => n = 2

\* three high readings of one soldier at t, t + 1 and t + 11 were stored
C3_Witness ==
  \E s \in Soldiers :
    LET h == HighTimes(s, Len(vitals))
    IN  /\ faults = 0
        /\ \A i \in RowsOf(alerts, s, "high") : ~alerts[i].acknowledged
        /\ Len(h) = 3
        /\ h[2] - h[1] = 1
        /\ h[3] - h[1] = 11
        /\ Cardinality(RowsOf(alerts, s, "high")) = 2

\* C4 as stated: a record of the reading's soldier and severity created less
\* than 10 minutes ago, acknowledged or not, keeps a further reading from
\* creating a record.
C4_AckKeepsSuppressing ==
  ( /\ StoredReading
    /\ LastLevel \in {"high", "critical"}
    /\ \E i \in RowsOf(last.alerts_before, last.data.soldier_id, LastLevel) :
         clock - last.alerts_before[i].created_at < 10 )
  => alerts = last.alerts_before

\* C4 amended: an unacknowledged record created less than 10 minutes ago keeps
\* a further reading of its soldier and severity from creating a record;
\* acknowledge_alert adds no record and changes only the acknowledged flag and
\* time of the record it names; and a high or critical reading stored without
\* a storage failure creates a record exactly when no unacknowledged record of
\* its soldier and severity was created in the last 10 minutes (acknowledged
\* records do not count).
C4_OnlyUnackedSuppress ==
  /\ ( /\ StoredReading
       /\ LastLevel \in {"high", "critical"}
       /\ \E i \in RowsOf(last.alerts_before, last.data.soldier_id, LastLevel) :
            /\ ~last.alerts_before[i].acknowledged
            /\ clock - last.alerts_before[i].created_at < 10 )
     => alerts = last.alerts_before
  /\ last.op = "acknowledge_alert" =>
       /\ Len(alerts) = Len(last.alerts_before)
       /\ \A i \in 1..Len(alerts) :
            /\ [alerts[i] EXCEPT !.acknowledged = FALSE, !.acknowledged_at = NULL]
                 = [last.alerts_before[i] EXCEPT !.acknowledged = FALSE,
                                                   !.acknowledged_at = NULL]
            /\ i # last.alert_id => alerts[i] = last.alerts_before[i]
  /\ ( /\ StoredReading
       /\ LastLevel \in {"high", "critical"}
       /\ last.raised = "none" )
     => ( Len(alerts) = Len(last.alerts_before) + 1
          <=> ~ \E i \in RowsOf(last.alerts_before, last.data.soldier_id, LastLevel) :
                   /\ ~last.alerts_before[i].acknowledged
                   /\ last.alerts_before[i].created_at >= clock - 10 )

\* a reading created a record although a record of its soldier and severity,
\* since acknowledged, was created less than 10 minutes before
C4_Witness ==
  /\ StoredReading
  /\ LastLevel \in {"high", "critical"}
  /\ Len(alerts) = Len(last.alerts_before) + 1
  /\ \E i \in RowsOf(last.alerts_before, last.data.soldier_id, LastLevel) :
       /\ last.alerts_before[i].acknowledged
       /\ clock - last.alerts_before[i].created_at < 10

\* C5: the message of a record created for an assessment is the action of a
\* recommendation whose priority is the highest in the assessment's list,
\* under CRITICAL > URGENT > HIGH > ROUTINE.
C5_MessageIsTopPriority ==
  ( /\ StoredReading
    /\ Len(alerts) = Len(last.alerts_before) + 1 )
  => LET recs == last.data.ml_analysis.recommendations
         rank(p) == CASE p = "CRITICAL" -> 4 [] p = "URGENT" -> 3
                      [] p = "HIGH" -> 2 [] OTHER -> 1
     IN  \E k \in 1..Len(recs) :
           /\ recs[k].action = alerts[Len(alerts)].message
           /\ \A m \in 1..Len(recs) : rank(recs[k].priority) >= rank(recs[m].priority)

\* C6: a reading whose overall level is low or moderate leaves the alert
\* records, their acknowledged flags included, as they were.
C6_LowModerateNoAlert ==
  ( /\ StoredReading
    /\ LastLevel \in {"low", "moderate"} )
  => alerts = last.alerts_before

\* a low or moderate reading was stored while alert records existed
C6_Witness ==
  /\ StoredReading
  /\ LastLevel \in {"low", "moderate"}
  /\ last.ret
  /\ Len(vitals) = Len(last.vitals_before) + 1
  /\ \E i \in 1..Len(last.alerts_before) : ~last.alerts_before[i].acknowledged

\* C7: when the lookup of recent alerts or the insert of the alert fails
\* while a high or critical reading is evaluated, no alert record is added and
\* the alert records are those before the call.
C7_FailureSuppresses ==
  ( /\ last.op = "receive_vitals"
    /\ last.raised \in {"select", "alert_insert"} )
  => /\ alerts = last.alerts_before
     /\ ~last.ret

\* the lookup or the insert failed for a reading that no earlier record suppresses
C7_Witness ==
  /\ StoredReading
  /\ LastLevel \in {"high", "critical"}
  /\ last.raised \in {"select", "alert_insert"}
  /\ CountRecent(last.alerts_before, last.data.soldier_id, LastLevel, clock - 10) = 0

\* C21: when store_vitals returns False the call has left no new vitals row
\* and no new alert row, and when it returns True it has added exactly one
\* vitals row.
C21_StoreAllOrNothing ==
  (last.op = "receive_vitals" /\ last.status = 200) =>
     /\ ~last.ret => (vitals = last.vitals_before /\ alerts = last.alerts_before)
     /\ last.ret => /\ Len(vitals) = Len(last.vitals_before) + 1
                    /\ SubSeq(vitals, 1, Len(last.vitals_before)) = last.vitals_before

(***************************************************************************)
(* Claims about the engine, under EngineSpec                               *)
(***************************************************************************)
\* C8: by every entry, a reading that lacks heart_rate, spo2 or temperature
\* gives an error and no assessment.
C8_MissingFieldFailsFast ==
  ( /\ outcome.entry # "none"
    /\ ~({"heart_rate", "spo2", "temperature"} \subseteq DOMAIN request) )
  => /\ outcome.error
     /\ outcome.result = << >>

\* C9: each of the four risk percentages of a prediction is in [0, 100].
C9_RiskPercentagesSaturate ==
  outcome.entry = "predict" =>
    \A k \in {"hypoxia", "altitude_sickness", "cardiac_stress", "hypothermia"} :
      /\ outcome.result.risk_predictions[k].percentage >= 0
      /\ outcome.result.risk_predictions[k].percentage <= 1000

\* a reading with heart_rate 10000 below sea level was assessed, and one of
\* its risks is at 100
C9_Witness ==
  /\ outcome.entry = "predict"
  /\ "heart_rate" \in DOMAIN request /\ request.heart_rate = 10000
  /\ "altitude" \in DOMAIN request /\ request.altitude < 0
  /\ \E k \in {"hypoxia", "altitude_sickness", "cardiac_stress", "hypothermia"} :
       outcome.result.risk_predictions[k].percentage = 1000

\* C11 as stated: for the reading 72/96/36.8/120/80 at 5400 m the hypoxia
\* prediction is 15.0 and low.
C11_HypoxiaFifteen ==
  (outcome.entry = "predict" /\ request = test_vitals_1) =>
     /\ outcome.result.risk_predictions.hypoxia.percentage = 150
     /\ outcome.result.risk_predictions.hypoxia.level = "low"

\* C11, amended: for the reading 72/96/36.8/120/80 at 5400 m the hypoxia
\* prediction is 9.0 and low: 5400 is below the breakpoint 5500, the factor is
\* 1.30 and the altitude contributes (1.30 - 1) * 30 = 9.
C11_HypoxiaNine ==
  (outcome.entry = "predict" /\ request = test_vitals_1) =>
     /\ outcome.result.risk_predictions.hypoxia.percentage = 90
     /\ outcome.result.risk_predictions.hypoxia.level = "low"

\* the first test reading was assessed with the factor of 4000 m
C11_Witness ==
  /\ outcome.entry = "predict"
  /\ request = test_vitals_1
  /\ outcome.result.altitude_adjustment = 130

\* C12 as stated: for the reading 115/82/36.5/140/90 at 6200 m the hypoxia
\* prediction is 92.5 and high.
C12_HypoxiaNinetyTwo ==
  (outcome.entry = "predict" /\ request = test_vitals_2) =>
     /\ outcome.result.risk_predictions.hypoxia.percentage = 925
     /\ outcome.result.risk_predictions.hypoxia.level = "high"

\* C12, amended: for the reading 115/82/36.5/140/90 at 6200 m the hypoxia
\* prediction is 85.0 and high: 60 for spo2 < 88, (1.50 - 1) * 30 = 15 for the
\* altitude (6200 is below the breakpoint 7000), 10 for heart_rate > 100.
C12_HypoxiaEightyFive ==
  (outcome.entry = "predict" /\ request = test_vitals_2) =>
     /\ outcome.result.risk_predictions.hypoxia.percentage = 850
     /\ outcome.result.risk_predictions.hypoxia.level = "high"

\* the second test reading was assessed with the factor of 5500 m
C12_Witness ==
  /\ outcome.entry = "predict"
  /\ request = test_vitals_2
  /\ outcome.result.altitude_adjustment = 150

\* C13: for the reading 72/96/36.8/120/80 at 5400 m the four vital assessments
\* are normal and in range, the health score is 100, the overall level is low
\* or moderate and the recommendations are one ROUTINE entry.
C13_NormalAtAltitude ==
  (outcome.entry = "predict" /\ request = test_vitals_1) =>
     /\ \A k \in {"heart_rate", "spo2", "temperature", "blood_pressure"} :
          /\ outcome.result.vital_assessments[k].status = "normal"
          /\ outcome.result.vital_assessments[k].in_range
     /\ outcome.result.health_score = 100
     /\ outcome.result.overall_risk_level \in {"low", "moderate"}
     /\ Len(outcome.result.recommendations) = 1
     /\ outcome.result.recommendations[1].priority = "ROUTINE"

\* the first test reading was assessed and its trend is stable
C13_Witness ==
  /\ outcome.entry = "predict"
  /\ request = test_vitals_1
  /\ outcome.result.health_trend = "stable"

\* C14: for the reading 115/82/36.5/140/90 at 6200 m the spo2 status is
\* critical, the overall level is critical or high and the recommendations
\* hold the URGENT entry to administer oxygen.
C14_CriticalHypoxia ==
  (outcome.entry = "predict" /\ request = test_vitals_2) =>
     /\ outcome.result.vital_assessments.spo2.status = "critical"
     /\ outcome.result.overall_risk_level \in {"critical", "high"}
     /\ \E i \in 1..Len(outcome.result.recommendations) :
          /\ outcome.result.recommendations[i].priority = "URGENT"
          /\ outcome.result.recommendations[i].action
               = "Administer supplemental oxygen immediately"

\* the second test reading was assessed and its trend is deteriorating
C14_Witness ==
  /\ outcome.entry = "predict"
  /\ request = test_vitals_2
  /\ outcome.result.health_trend = "deteriorating"

\* C17: the recommendations of an assessment are the entries of the matching
\* rules among (1) overall critical, (2) spo2 critical, or else warning,
\* (3) heart rate critical, (4) temperature critical, (5) blood pressure
\* critical, in that order and once each; the ROUTINE entry is there exactly
\* when none of them matched and the overall level is low or moderate, and
\* then it is the only entry.
C17_RecommendationsInRuleOrder ==
  outcome.entry = "predict" =>
    LET r == outcome.result
        va == r.vital_assessments
        recs == [i \in 1..Len(r.recommendations) |->
                   <<r.recommendations[i].priority, r.recommendations[i].action>>]
        e1 == IF r.overall_risk_level = "critical"
              THEN << <<"CRITICAL", "Immediate medical evacuation required">> >>
              ELSE << >>
        e2 == IF va.spo2.status = "critical"
              THEN << <<"URGENT", "Administer supplemental oxygen immediately">> >>
              ELSE IF va.spo2.status = "warning"
              THEN << <<"HIGH",
                        "Monitor oxygen saturation closely, consider oxygen therapy">> >>
              ELSE << >>
        e3 == IF va.heart_rate.status = "critical"
              THEN << <<"URGENT", "Cardiac assessment required - possible arrhythmia">> >>
              ELSE << >>
        e4 == IF va.temperature.status # "critical" THEN << >>
              ELSE IF va.temperature.value < 355
              THEN << <<"URGENT",
                        "Hypothermia treatment - warm gradually, avoid extremes">> >>
              ELSE << <<"URGENT", "Hyperthermia treatment - cool down, hydrate">> >>
        e5 == IF va.blood_pressure.status = "critical"
              THEN << <<"HIGH", "Blood pressure management required">> >>
              ELSE << >>
        matched == e1 \o e2 \o e3 \o e4 \o e5
        routine == matched = << >> /\ r.overall_risk_level \in {"low", "moderate"}
    IN  /\ routine => recs = << <<"ROUTINE", "Continue standard monitoring protocol">> >>
        /\ ~routine => recs = matched
        /\ (\E i \in 1..Len(recs) : recs[i][1] = "ROUTINE") <=> routine

\* an assessment in which all five rules matched
C17_Witness ==
  /\ outcome.entry = "predict"
  /\ Len(outcome.result.recommendations) = 5
  /\ outcome.result.recommendations[1].priority = "CRITICAL"
  /\ outcome.result.recommendations[5].priority = "HIGH"

\* C18: in every vital status of an assessment, the four reported ones and
\* the systolic and diastolic ones behind the blood pressure composite, status
\* is normal iff severity is 0 iff in_range, warning iff severity is 1,
\* critical iff severity is 2; the composite has the worse of the systolic and
\* diastolic statuses and the larger of their severities.
C18_VitalStatusConsistent ==
  outcome.entry = "predict" =>
    LET va == outcome.result.vital_assessments
        sys_status == _assess_vital("systolic", Get(request, "systolic", 120))
        dia_status == _assess_vital("diastolic", Get(request, "diastolic", 80))
        all == {va.heart_rate, va.spo2, va.temperature, sys_status, dia_status}
        rank(status) == CASE status = "normal" -> 0 [] status = "warning" -> 1
                          [] status = "critical" -> 2 [] OTHER -> 3
        consistent(v) == /\ v.severity \in 0..2
                         /\ rank(v.status) = v.severity
                         /\ v.in_range <=> (v.severity = 0)
    IN  /\ \A v \in all : consistent(v)
        /\ consistent(va.blood_pressure)
        /\ rank(va.blood_pressure.status)
             = IF rank(sys_status.status) >= rank(dia_status.status)
               THEN rank(sys_status.status) ELSE rank(dia_status.status)
        /\ va.blood_pressure.severity
             = IF sys_status.severity >= dia_status.severity
               THEN sys_status.severity ELSE dia_status.severity

\* an assessment whose systolic pressure is a warning and whose diastolic
\* pressure is critical
C18_Witness ==
  /\ outcome.entry = "predict"
  /\ "systolic" \in DOMAIN request /\ request.systolic = 135
  /\ "diastolic" \in DOMAIN request /\ request.diastolic = 45
  /\ outcome.result.vital_assessments.blood_pressure.status = "critical"
  /\ outcome.result.vital_assessments.blood_pressure.severity = 2

\* C20 as stated: every assessment has at least one recommendation, and no
\* alert made from an assessment has the message 'Health risk detected'.
C20_AlwaysARecommendation ==
  (outcome.entry \in {"predict", "api_vitals"} /\ ~outcome.error) =>
     /\ Len(outcome.result.recommendations) >= 1
     /\ \A i \in 1..Len(alerts) : alerts[i].message # "Health risk detected"

\* C20, amended: an assessment has no recommendation exactly when its overall
\* level is high while the spo2 status is normal and none of heart rate,
\* temperature and blood pressure is critical; an alert made from an
\* assessment has the message 'Health risk detected' exactly when the
\* assessment has no recommendation, and then its severity is high.
C20_NoRecommendationOnlyAtHigh ==
  (outcome.entry \in {"predict", "api_vitals"} /\ ~outcome.error) =>
     LET r == outcome.result
         va == r.vital_assessments
     IN  /\ (r.recommendations = << >>) <=>
              /\ r.overall_risk_level = "high"
              /\ va.spo2.status = "normal"
              /\ va.heart_rate.status # "critical"
              /\ va.temperature.status # "critical"
              /\ va.blood_pressure.status # "critical"
         /\ \A i \in 1..Len(alerts) :
              /\ (alerts[i].message = "Health risk detected")
                   <=> (r.recommendations = << >>)
              /\ alerts[i].message = "Health risk detected"
                   => alerts[i].severity = "high"

\* POST /api/vitals with the reading 115/93/35.8/120/80 at 7001 m made an
\* alert with the fallback message
C20_Witness ==
  /\ outcome.entry = "api_vitals"
  /\ ~outcome.error
  /\ outcome.result.recommendations = << >>
  /\ Len(alerts) = 1
  /\ alerts[1].message = "Health risk detected"

(***************************************************************************)
(* Claims about the health score, under ScoreSpec                          *)
(***************************************************************************)
\* C10: raising one severity and keeping the others never raises the health
\* score, and every health score is in [0, 100].
C10_ScoreMonotone ==
  /\ health_score # NULL => (health_score >= 0 /\ health_score <= 100)
  /\ (health_score # NULL /\ scored_before # << >>) =>
       health_score <= scored_before.health_score

\* the last severity was raised to reach all four at 2, where the sum of the
\* deductions passes 100 and the score stays at 0
C10_Witness ==
  /\ health_score = 0
  /\ scored_before # << >>
  /\ scored_before.health_score = 0
  /\ \A k \in Assessed : severities[k] = 2

(***************************************************************************)
(* Claims about concurrent calls, under ConcSpec                           *)
(***************************************************************************)
\* C2: when calls of store_vitals for the same soldier and the same high or
\* critical level run concurrently and no recent unacknowledged alert exists,
\* at most one alert record is inserted under every interleaving.
C2_AtMostOneRecord ==
  \A soldier_id \in Soldiers, severity \in {"high", "critical"} :
    Cardinality({i \in 1..Len(alerts) :
                   /\ alerts[i].soldier_id = soldier_id
                   /\ alerts[i].severity = severity
                   /\ ~alerts[i].acknowledged
                   /\ alerts[i].created_at >= clock - 10}) <= 1

C16_AltitudeStepFunction ==
  outcome.entry = "_get_altitude_factor" =>
    LET breakpoints == {<<0, 100>>, <<1000, 105>>, <<2500, 115>>, <<4000, 130>>,
                        <<5500, 150>>, <<7000, 175>>}
        below == {b \in breakpoints : b[1] <= request.a1}
    IN  /\ below = {} => outcome.result.f1 = 100
        /\ \A b \in below :
             (\A c \in below : c[1] <= b[1]) => outcome.result.f1 = b[2]
        /\ request.a1 <= request.a2 => outcome.result.f1 <= outcome.result.f2
        /\ request.a1 = 0 => outcome.result.f1 = 100
        /\ request.a1 = 999 => outcome.result.f1 = 100
        /\ request.a1 = 1000 => outcome.result.f1 = 105
        /\ request.a1 = 7001 => outcome.result.f1 = 175

\* the factors of 6999 and 7001 were looked up and the second is the larger
C16_Witness ==
  /\ outcome.entry = "_get_altitude_factor"
  /\ request.a1 = 6999 /\ request.a2 = 7001
  /\ outcome.result.f1 < outcome.result.f2

(***************************************************************************)
(* Claims about the aggregator, under AggregateSpec                        *)
(***************************************************************************)
\* C19: for every four risk percentages the aggregator returns
\* 0.6 * max + 0.4 * mean of them (to the one decimal it keeps), a value
\* between the mean and the max and in [0, 100], and the level it returns is
\* the one the strict thresholds give that value: critical above 70, else
\* high above 50, else moderate above 30, else low.
C19_LevelOfReturnedOverall ==
  outcome.entry = "_determine_overall_risk" =>
    LET ps == {request.hypoxia, request.altitude_sickness, request.cardiac,
               request.hypothermia}
        max == CHOOSE m \in ps : \A q \in ps : q <= m
        sum == request.hypoxia + request.altitude_sickness + request.cardiac
                 + request.hypothermia
        overall == outcome.result.percentage
    IN  /\ 10 * overall - (6 * max + sum) \in -5..5
        /\ 4 * overall >= sum
        /\ overall <= max
        /\ overall >= 0 /\ overall <= 1000
        /\ outcome.result.level
             = IF overall > 700 THEN "critical"
               ELSE IF overall > 500 THEN "high"
               ELSE IF overall > 300 THEN "moderate"
               ELSE "low"

=============================================================================
